---- MODULE Spec2Model ----
(***************************************************************************)
(* Workload Management System (app.py): the staff / orders tables of       *)
(* workload.db, the domain operations on them, the advisory (Groq)         *)
(* functions, the Streamlit pages that call them, and two sessions racing  *)
(* on complete_order.                                                      *)
(*                                                                         *)
(* Python values are tagged records (PyNone, PyBool, PyStr, PyList, ...),  *)
(* SQL NULL is the empty tuple and a TEXT value s is <<s>>, text is a TLA+ *)
(* string (Len, SubSeq and \o work on it).                                 *)
(***************************************************************************)
EXTENDS Integers, Sequences, FiniteSets, TLC

VARIABLES
    db,         \* workload.db: [staff, orders, seq_staff, seq_orders]
    op,         \* the last call or page run: [name, args]
    ret,        \* what that call returned (a Python value)
    conns,      \* how many storage connections that call opened
    rep,        \* TRUE iff that call repeats the call before it (same name, same arguments)
    created,    \* history: [id, name, pw] of the add_staff calls whose staff record still exists
    logged_in,  \* st.session_state.logged_in: <<>> (absent) or <<staff_name>>
    buttons,    \* ids of the "Mark Complete <id>" buttons the last page run rendered
    pc,         \* racing sessions: where each is inside complete_order
    target,     \* racing sessions: the order_id each was called with
    tx,         \* racing sessions: <<>> or <<image>>, the connection's uncommitted image of the database
    writer,     \* racing sessions: <<>> or <<s>>, the connection holding SQLite's write lock
    base        \* racing sessions: [orders, raced], db.orders when the first of them connected,
                \* and whether the other connected before the first had returned

vars == <<db, op, ret, conns, rep, created, logged_in, buttons, pc, target, tx, writer, base>>
shellVars == <<logged_in, buttons>>
raceVars == <<pc, target, tx, writer, base>>

-----------------------------------------------------------------------------
(* Bounds *)

MaxOrders == 2
MaxStaff == 2

-----------------------------------------------------------------------------
(* Values *)

NULL == <<>>
Text(s) == <<s>>

PyNone == [t |-> "None"]
PyBool(b) == [t |-> "bool", v |-> b]
PyStr(s) == [t |-> "str", v |-> s]
PyList(s) == [t |-> "list", v |-> s]
DataFrame(rows) == [t |-> "DataFrame", v |-> rows]

Max(a, b) == IF a >= b THEN a ELSE b

Ids(table) == {r.id : r \in table}

RECURSIVE Rows(_)
Rows(table) ==
    IF table = {} THEN <<>>
    ELSE LET first == CHOOSE r \in table : \A q \in table : r.id <= q.id
         IN  <<first>> \o Rows(table \ {first})

-----------------------------------------------------------------------------
(* Text *)

Char(s, i) == SubSeq(s, i, i)

RECURSIVE join(_, _)
join(sep, items) ==
    IF items = <<>> THEN ""
    ELSE IF Len(items) = 1 THEN items[1]
    ELSE items[1] \o sep \o join(sep, Tail(items))

\* str.split(sep) for a one-character sep: "" splits to [""], "a,b" to ["a", "b"]
RECURSIVE split(_, _)
split(s, sep) ==
    IF \A i \in 1..Len(s) : Char(s, i) # sep THEN <<s>>
    ELSE LET i == CHOOSE k \in 1..Len(s) :
                      /\ Char(s, k) = sep
                      /\ \A j \in 1..(k - 1) : Char(s, j) # sep
         IN  <<SubSeq(s, 1, i - 1)>> \o split(SubSeq(s, i + 1, Len(s)), sep)

RECURSIVE lstrip(_)
lstrip(s) ==
    IF s # "" /\ Char(s, 1) = " " THEN lstrip(SubSeq(s, 2, Len(s))) ELSE s

RECURSIVE rstrip(_)
rstrip(s) ==
    IF s # "" /\ Char(s, Len(s)) = " " THEN rstrip(SubSeq(s, 1, Len(s) - 1)) ELSE s

strip(s) == rstrip(lstrip(s))

\* [x.strip() for x in text.split(",")]
RECURSIVE strip_each(_)
strip_each(parts) ==
    IF parts = <<>> THEN <<>> ELSE <<strip(Head(parts))>> \o strip_each(Tail(parts))

(* hashlib.sha256(text.encode()).hexdigest(): a deterministic, unsalted      *)
(* digest written as 64 hex digits.  The digest is stood in for by an       *)
(* injective code of the text (SHA-256 is taken to be collision free on the *)
(* passwords in play); the formatting to fixed-length hex is kept.          *)
CodeTable == "px"
HexDigits == "0123456789abcdef"
HexLen == 64

ord(c) == CHOOSE i \in 1..Len(CodeTable) : Char(CodeTable, i) = c

RECURSIVE digest(_)
digest(text) ==
    IF text = "" THEN 1
    ELSE digest(SubSeq(text, 1, Len(text) - 1)) * (Len(CodeTable) + 1) + ord(Char(text, Len(text)))

Zeros == "0000000000000000000000000000000000000000000000000000000000000000"

\* n in hex, zero-padded on the left to width digits
RECURSIVE hex(_, _)
hex(n, width) ==
    IF width = 0 THEN ""
    ELSE IF n = 0 THEN SubSeq(Zeros, 1, width)
    ELSE hex(n \div 16, width - 1) \o Char(HexDigits, (n % 16) + 1)

sha256_hexdigest(text) == hex(digest(text), HexLen)

-----------------------------------------------------------------------------
(* Storage: the schema of setup_database and the statements on it *)

\* AUTOINCREMENT: one more than the largest rowid the table ever held
NextId(table, seq) ==
    LET largest == IF table = {} THEN 0
                   ELSE CHOOSE m \in Ids(table) : \A i \in Ids(table) : m >= i
    IN  Max(largest, seq) + 1

\* variant: the schema's default status is 'Pending'
insert_order_pending(d, customer_name, items) ==
    LET id == NextId(d.orders, d.seq_orders)
    IN  [d EXCEPT !.orders = @ \cup {[id |-> id, customer_name |-> customer_name, items |-> items,
                                     assigned_to |-> NULL, status |-> "Pending"]},
                  !.seq_orders = id]

\* INSERT INTO orders (customer_name, items): id generated, assigned_to NULL, status DEFAULT 'WIP'
insert_order(d, customer_name, items) ==
    LET id == NextId(d.orders, d.seq_orders)
    IN  [d EXCEPT !.orders = @ \cup {[id |-> id, customer_name |-> customer_name, items |-> items,
                                     assigned_to |-> NULL, status |-> "WIP"]},
                  !.seq_orders = id]

\* INSERT INTO staff (name, password, groups): id generated
insert_staff(d, name, password, groups) ==
    LET id == NextId(d.staff, d.seq_staff)
    IN  [d EXCEPT !.staff = @ \cup {[id |-> id, name |-> name, password |-> password, groups |-> groups]},
                  !.seq_staff = id]

\* the database file after setup_database() on a fresh file: both tables exist and are empty
EmptyDb == [staff |-> {}, orders |-> {}, seq_staff |-> 0, seq_orders |-> 0]

-----------------------------------------------------------------------------
(* Domain operations: each maps the database to the database after the call, *)
(* or to the value the call returns                                          *)

\* variant: the items are joined with ", "
place_order_spaced(d, customer_name, items) == insert_order(d, customer_name, join(", ", items))

place_order(d, customer_name, items) == insert_order(d, customer_name, join(",", items))

\* variant: the query matches on the name alone
authenticate_name_only(d, staff_name, staff_password) ==
    \E r \in d.staff : r.name = staff_name

authenticate(d, staff_name, staff_password) ==
    LET hashed_password == sha256_hexdigest(staff_password)
    IN  \E r \in d.staff : r.name = staff_name /\ r.password = hashed_password

\* variant: every unassigned order goes to the staff record with the smallest id
auto_assign_orders_first_staff(d) ==
    IF d.staff = {} THEN d
    ELSE LET first == CHOOSE r \in d.staff : \A q \in d.staff : r.id <= q.id
         IN  [d EXCEPT !.orders = {IF r.assigned_to = NULL THEN [r EXCEPT !.assigned_to = Text(first.name)]
                                   ELSE r : r \in @}]

auto_assign_orders(d) == d

\* rows (id, customer_name, items, status) WHERE assigned_to = ?  (NULL matches nothing)
get_staff_orders(d, staff_name) ==
    LET hit == {r \in d.orders : r.assigned_to = Text(staff_name)}
        all == Rows(hit)
    IN  [i \in 1..Len(all) |-> <<all[i].id, all[i].customer_name, all[i].items, all[i].status>>]

\* variant: the status is flipped instead of set
complete_order_toggle(d, order_id) ==
    [d EXCEPT !.orders = {IF r.id = order_id
                          THEN [r EXCEPT !.status = IF @ = "WIP" THEN "Completed" ELSE "WIP"]
                          ELSE r : r \in @}]

\* variant: the UPDATE has no WHERE clause
complete_order_all(d, order_id) ==
    [d EXCEPT !.orders = {[r EXCEPT !.status = "Completed"] : r \in @}]

\* variant: INSERT OR REPLACE, which makes the row when the id is unknown
complete_order_upsert(d, order_id) ==
    IF order_id \in Ids(d.orders)
    THEN [d EXCEPT !.orders = {IF r.id = order_id THEN [r EXCEPT !.status = "Completed"] ELSE r : r \in @}]
    ELSE [d EXCEPT !.orders = @ \cup {[id |-> order_id, customer_name |-> "", items |-> "",
                                      assigned_to |-> NULL, status |-> "Completed"]}]

complete_order(d, order_id) ==
    [d EXCEPT !.orders = {IF r.id = order_id THEN [r EXCEPT !.status = "Completed"] ELSE r : r \in @}]

get_dashboard_data(d) ==
    LET all == Rows(d.orders)
    IN  [i \in 1..Len(all) |->
            [order_id |-> all[i].id, assigned_to |-> all[i].assigned_to, status |-> all[i].status]]

add_staff(d, name, password, groups) == insert_staff(d, name, sha256_hexdigest(password), groups)

\* variant: the record is deleted and inserted again with the new groups
edit_staff_reinsert(d, name, groups) ==
    insert_staff([d EXCEPT !.staff = {r \in @ : r.name # name}], name, "", groups)

edit_staff(d, name, groups) ==
    [d EXCEPT !.staff = {IF r.name = name THEN [r EXCEPT !.groups = groups] ELSE r : r \in @}]

delete_staff(d, name) == [d EXCEPT !.staff = {r \in @ : r.name # name}]

get_all_staff(d) ==
    LET all == Rows(d.staff)
    IN  [i \in 1..Len(all) |-> [staff_name |-> all[i].name, groups |-> all[i].groups]]

\* the dashboard's three metrics: df.shape[0], df[df['status']=='WIP'].shape[0], ...=='Completed'
CountStatus(df, status) == Cardinality({i \in 1..Len(df) : df[i].status = status})
Metrics(df) ==
    [total |-> Len(df), in_progress |-> CountStatus(df, "WIP"), completed |-> CountStatus(df, "Completed")]

-----------------------------------------------------------------------------
(* Advisory functions.  groq_llm is None or a ChatGroq client; the client's *)
(* predict(query) is the service's free-text reply, whatever the query.     *)

ChatGroq(reply) == [t |-> "ChatGroq", predict |-> reply]

\* variant: no early return, so predict is looked up on None
recommend_items_unguarded(customer_name, current_items, groq_llm) ==
    IF groq_llm = PyNone THEN [t |-> "raise", v |-> "AttributeError"]
    ELSE PyList(strip_each(split(groq_llm.predict, ",")))

recommend_items(customer_name, current_items, groq_llm) ==
    IF groq_llm = PyNone THEN PyList(<<>>)
    ELSE PyList(strip_each(split(groq_llm.predict, ",")))

\* available_staff is a dict {staff_name: skills}
smart_assign_staff(d, order_item, available_staff, groq_llm) ==
    IF groq_llm = PyNone \/ DOMAIN available_staff = {} THEN PyNone
    ELSE PyStr(strip(groq_llm.predict))

\* the get_staff_orders calls smart_assign_staff makes: one connection per staff name
smart_assign_staff_conns(available_staff, groq_llm) ==
    IF groq_llm = PyNone \/ DOMAIN available_staff = {} THEN 0
    ELSE Cardinality(DOMAIN available_staff)

analyze_trends(df, groq_llm) ==
    IF groq_llm = PyNone THEN PyStr("No AI model available.")
    ELSE PyStr(groq_llm.predict)

suggest_groups_for_staff(groq_llm) ==
    IF groq_llm = PyNone THEN PyList(<<>>)
    ELSE PyList(strip_each(split(groq_llm.predict, ",")))

staff_dashboard_message(staff_name, groq_llm, orders_pending) ==
    IF groq_llm = PyNone THEN PyStr("")
    ELSE PyStr(groq_llm.predict)

-----------------------------------------------------------------------------
(* Inputs *)

StaffNames == {"alice", "bob"}
Passwords == {"p", "px"}
GroupTexts == {"Veg Pizza", "Sandwich"}
CustomerNames == {"bob"}
ItemLists == {<<"Veg Pizza", "Coke">>}
OrderIds == 0..MaxOrders
Replies == {"alice", " Coke, Burger "}
Clients == {PyNone} \cup {ChatGroq(r) : r \in Replies}
StaffDicts == {<<>>, [n \in {"alice"} |-> "Veg Pizza"]}

-----------------------------------------------------------------------------
(* The state after the script's setup_database() on a fresh workload.db *)

Init ==
    /\ db = EmptyDb
    /\ op = [name |-> "setup_database", args |-> <<>>]
    /\ ret = PyNone
    /\ conns = 1
    /\ rep = FALSE
    /\ created = {}
    /\ logged_in = <<>>
    /\ buttons = {}
    /\ pc = [s \in {1, 2} |-> "idle"]
    /\ target = [s \in {1, 2} |-> 0]
    /\ tx = [s \in {1, 2} |-> <<>>]
    /\ writer = <<>>
    /\ base = [orders |-> {}, raced |-> FALSE]

\* bookkeeping of a call: its name and arguments, its result, the connections it opened
Call(name, args, result, opened) ==
    /\ op' = [name |-> name, args |-> args]
    /\ ret' = result
    /\ conns' = opened
    /\ rep' = (op.name = name /\ op.args = args)

-----------------------------------------------------------------------------
(* The domain operations called directly *)

DoPlaceOrder ==
    \E customer_name \in CustomerNames, items \in ItemLists :
        /\ Cardinality(db.orders) < MaxOrders
        /\ db' = place_order(db, customer_name, items)
        /\ Call("place_order", <<customer_name, items>>, PyNone, 1)
        /\ UNCHANGED <<created, shellVars, raceVars>>

DoAuthenticate ==
    \E staff_name \in StaffNames, staff_password \in Passwords :
        /\ Call("authenticate", <<staff_name, staff_password>>,
                PyBool(authenticate(db, staff_name, staff_password)), 1)
        /\ UNCHANGED <<db, created, shellVars, raceVars>>

DoAutoAssignOrders ==
    /\ db' = auto_assign_orders(db)
    /\ Call("auto_assign_orders", <<>>, PyNone, 0)
    /\ UNCHANGED <<created, shellVars, raceVars>>

DoGetStaffOrders ==
    \E staff_name \in StaffNames :
        /\ Call("get_staff_orders", <<staff_name>>, PyList(get_staff_orders(db, staff_name)), 1)
        /\ UNCHANGED <<db, created, shellVars, raceVars>>

DoCompleteOrder ==
    \E order_id \in OrderIds :
        /\ db' = complete_order(db, order_id)
        /\ Call("complete_order", <<order_id>>, PyNone, 1)
        /\ UNCHANGED <<created, shellVars, raceVars>>

DoGetDashboardData ==
    /\ Call("get_dashboard_data", <<>>, DataFrame(get_dashboard_data(db)), 1)
    /\ UNCHANGED <<db, created, shellVars, raceVars>>

DoAddStaff ==
    \E name \in StaffNames, password \in Passwords, groups \in GroupTexts :
        /\ db.seq_staff < MaxStaff
        /\ db' = add_staff(db, name, password, groups)
        /\ created' = created \cup {[id |-> NextId(db.staff, db.seq_staff), name |-> name, pw |-> password]}
        /\ Call("add_staff", <<name, password, groups>>, PyNone, 1)
        /\ UNCHANGED <<shellVars, raceVars>>

DoEditStaff ==
    \E name \in StaffNames, groups \in GroupTexts :
        /\ db' = edit_staff(db, name, groups)
        /\ Call("edit_staff", <<name, groups>>, PyNone, 1)
        /\ UNCHANGED <<created, shellVars, raceVars>>

DoDeleteStaff ==
    \E name \in StaffNames :
        /\ db' = delete_staff(db, name)
        /\ created' = {c \in created : c.id \in Ids(db'.staff)}
        /\ Call("delete_staff", <<name>>, PyNone, 1)
        /\ UNCHANGED <<shellVars, raceVars>>

DoGetAllStaff ==
    /\ Call("get_all_staff", <<>>, DataFrame(get_all_staff(db)), 1)
    /\ UNCHANGED <<db, created, shellVars, raceVars>>

DoRecommendItems ==
    \E customer_name \in CustomerNames, items \in ItemLists, groq_llm \in Clients :
        /\ Call("recommend_items", <<customer_name, items, groq_llm>>,
                recommend_items(customer_name, items, groq_llm), 0)
        /\ UNCHANGED <<db, created, shellVars, raceVars>>

DoSmartAssignStaff ==
    \E order_item \in {"Veg Pizza"}, available_staff \in StaffDicts, groq_llm \in Clients :
        /\ Call("smart_assign_staff", <<order_item, available_staff, groq_llm>>,
                smart_assign_staff(db, order_item, available_staff, groq_llm),
                smart_assign_staff_conns(available_staff, groq_llm))
        /\ UNCHANGED <<db, created, shellVars, raceVars>>

DoAnalyzeTrends ==
    \E groq_llm \in Clients :
        /\ Call("analyze_trends", <<groq_llm>>, analyze_trends(get_dashboard_data(db), groq_llm), 0)
        /\ UNCHANGED <<db, created, shellVars, raceVars>>

DoSuggestGroupsForStaff ==
    \E groq_llm \in Clients :
        /\ Call("suggest_groups_for_staff", <<groq_llm>>, suggest_groups_for_staff(groq_llm), 0)
        /\ UNCHANGED <<db, created, shellVars, raceVars>>

DoStaffDashboardMessage ==
    \E staff_name \in StaffNames, groq_llm \in Clients :
        /\ Call("staff_dashboard_message", <<staff_name, groq_llm>>,
                staff_dashboard_message(staff_name, groq_llm, <<>>), 0)
        /\ UNCHANGED <<db, created, shellVars, raceVars>>

Next ==
    \/ DoPlaceOrder
    \/ DoAuthenticate
    \/ DoAutoAssignOrders
    \/ DoGetStaffOrders
    \/ DoCompleteOrder
    \/ DoGetDashboardData
    \/ DoAddStaff
    \/ DoEditStaff
    \/ DoDeleteStaff
    \/ DoGetAllStaff

Spec == Init /\ [][Next]_vars

\* the advisory functions, called over the databases the order operations build
AdvisoryNext ==
    \/ DoPlaceOrder
    \/ DoCompleteOrder
    \/ DoRecommendItems
    \/ DoSmartAssignStaff
    \/ DoAnalyzeTrends
    \/ DoSuggestGroupsForStaff
    \/ DoStaffDashboardMessage

AdvisorySpec == Init /\ [][AdvisoryNext]_vars

-----------------------------------------------------------------------------
(* The Streamlit script: one action is one run of the script, top to bottom, *)
(* for a menu choice, the widgets' values and the button that was clicked.   *)
(* Every run calls setup_database() first (the tables exist: no change) and  *)
(* load_groq_model(), which gives None when no API key is configured.        *)

product_group_mapping ==
    [item \in {"Veg Pizza", "NV Pizza", "Sandwich", "Burger", "Coke"} |->
        CASE item = "Burger" -> "Burger"
          [] item = "Coke" -> "Drinks"
          [] OTHER -> item]

get_active_groups == {"Veg Pizza", "NV Pizza", "Sandwich"}

available_items == {item \in DOMAIN product_group_mapping : product_group_mapping[item] \in get_active_groups}

\* what the multiselect can hold: lists over available_items only
ItemSelections ==
    {l \in {<<>>, <<"Veg Pizza", "Sandwich">>, <<"Coke">>} : \A i \in 1..Len(l) : l[i] \in available_items}

TextNames == {"alice", ""}
TextPasswords == {"p", ""}
TextGroups == {"Veg Pizza", ""}
TextNewGroups == {"Sandwich", ""}
TextCustomers == {"bob", ""}
ShellClients == {PyNone, ChatGroq("alice")}

PlaceOrderPage ==
    \E groq_llm \in ShellClients, customer_name \in TextCustomers, items \in ItemSelections, clicked \in BOOLEAN :
        LET recommended == IF items # <<>> /\ groq_llm # PyNone
                           THEN recommend_items(customer_name, items, groq_llm) ELSE PyNone
            placed == clicked /\ customer_name # "" /\ items # <<>>
            message == IF ~clicked THEN ""
                       ELSE IF placed THEN "Order placed successfully!"
                       ELSE "Please enter Customer Name and select at least one item."
        IN  /\ placed => Cardinality(db.orders) < MaxOrders
            /\ db' = IF placed THEN place_order(db, customer_name, items) ELSE db
            /\ Call("Place Order", <<groq_llm, customer_name, items, clicked>>,
                    [recommended |-> recommended, message |-> message], IF placed THEN 2 ELSE 1)
            /\ buttons' = {}
            /\ UNCHANGED <<created, logged_in, raceVars>>

\* for order in staff_orders: the clicked "Mark Complete <order_id>" button completes its order
RECURSIVE MarkComplete(_, _, _)
MarkComplete(d, staff_orders, clicked) ==
    IF staff_orders = <<>> THEN d
    ELSE LET order_id == Head(staff_orders)[1]
         IN  MarkComplete(IF clicked = <<"Mark Complete", order_id>> THEN complete_order(d, order_id) ELSE d,
                          Tail(staff_orders), clicked)

\* clicked: <<>> (no button), <<"Login">>, or a Mark Complete button the last run rendered
StaffLoginPage ==
    \E groq_llm \in ShellClients, staff_name \in TextNames, staff_password \in TextPasswords,
       clicked \in {<<>>, <<"Login">>} \cup {<<"Mark Complete", id>> : id \in buttons} :
        LET accepted == clicked = <<"Login">> /\ authenticate(db, staff_name, staff_password)
            session == IF accepted THEN <<staff_name>> ELSE logged_in
            assigned == IF session = <<>> THEN db ELSE auto_assign_orders(db)
            staff_orders == IF session = <<>> THEN <<>> ELSE get_staff_orders(assigned, session[1])
            order_list == [i \in 1..Len(staff_orders) |-> staff_orders[i][3]]
            message == IF session # <<>> /\ groq_llm # PyNone
                       THEN staff_dashboard_message(session[1], groq_llm, order_list) ELSE PyNone
            after == MarkComplete(assigned, staff_orders, clicked)
        IN  /\ db' = after
            /\ logged_in' = session
            /\ buttons' = {staff_orders[i][1] : i \in 1..Len(staff_orders)}
            /\ Call("Staff Login", <<groq_llm, staff_name, staff_password, clicked>>,
                    [accepted |-> accepted, message |-> message, orders |-> staff_orders,
                     completed |-> {r.id : r \in after.orders \ db.orders}],
                    1 + (IF clicked = <<"Login">> THEN 1 ELSE 0) + (IF session = <<>> THEN 0 ELSE 1)
                      + Cardinality({clicked} \cap {<<"Mark Complete", staff_orders[i][1]>> : i \in 1..Len(staff_orders)}))
            /\ UNCHANGED <<created, raceVars>>

\* df[df['status']=='Completed'].groupby('assigned_to').size(): NULL keys are dropped
StaffPerformance(df) ==
    LET done == {i \in 1..Len(df) : df[i].status = "Completed" /\ df[i].assigned_to # NULL}
    IN  [n \in {df[i].assigned_to[1] : i \in done} |-> Cardinality({i \in done : df[i].assigned_to = Text(n)})]

DashboardPage ==
    \E groq_llm \in ShellClients :
        LET df == get_dashboard_data(db)
            insights == IF groq_llm # PyNone THEN analyze_trends(df, groq_llm) ELSE PyNone
        IN  /\ Call("Dashboard", <<groq_llm>>,
                    [metrics |-> Metrics(df), insights |-> insights, staff_perf |-> StaffPerformance(df)], 2)
            /\ buttons' = {}
            /\ UNCHANGED <<db, created, logged_in, raceVars>>

AdminAddStaffPage ==
    \E groq_llm \in ShellClients, name \in TextNames, password \in TextPasswords, groups \in TextGroups,
       clicked \in BOOLEAN :
        LET suggested == IF groq_llm # PyNone THEN suggest_groups_for_staff(groq_llm) ELSE PyNone
            added == clicked /\ name # "" /\ password # "" /\ groups # ""
            message == IF ~clicked THEN ""
                       ELSE IF added THEN "Staff added successfully!" ELSE "All fields are required!"
        IN  /\ added => db.seq_staff < MaxStaff
            /\ db' = IF added THEN add_staff(db, name, password, groups) ELSE db
            /\ created' = IF added
                          THEN created \cup {[id |-> NextId(db.staff, db.seq_staff), name |-> name, pw |-> password]}
                          ELSE created
            /\ Call("Admin Panel: Add Staff", <<groq_llm, name, password, groups, clicked>>,
                    [suggested |-> suggested, message |-> message], IF added THEN 2 ELSE 1)
            /\ buttons' = {}
            /\ UNCHANGED <<logged_in, raceVars>>

AdminEditStaffPage ==
    \E name \in TextNames, groups \in TextNewGroups, clicked \in BOOLEAN :
        LET edited == clicked /\ name # "" /\ groups # ""
            message == IF ~clicked THEN ""
                       ELSE IF edited THEN "Staff updated successfully!" ELSE "All fields are required!"
        IN  /\ db' = IF edited THEN edit_staff(db, name, groups) ELSE db
            /\ Call("Admin Panel: Edit Staff", <<name, groups, clicked>>, [message |-> message],
                    IF edited THEN 2 ELSE 1)
            /\ buttons' = {}
            /\ UNCHANGED <<created, logged_in, raceVars>>

AdminDeleteStaffPage ==
    \E name \in TextNames, clicked \in BOOLEAN :
        LET deleted == clicked /\ name # ""
            message == IF ~clicked THEN ""
                       ELSE IF deleted THEN "Staff deleted successfully!" ELSE "Staff Name is required!"
        IN  /\ db' = IF deleted THEN delete_staff(db, name) ELSE db
            /\ created' = {c \in created : c.id \in Ids(db'.staff)}
            /\ Call("Admin Panel: Delete Staff", <<name, clicked>>, [message |-> message],
                    IF deleted THEN 2 ELSE 1)
            /\ buttons' = {}
            /\ UNCHANGED <<logged_in, raceVars>>

AdminViewStaffPage ==
    /\ Call("Admin Panel: View Staff", <<>>, DataFrame(get_all_staff(db)), 2)
    /\ buttons' = {}
    /\ UNCHANGED <<db, created, logged_in, raceVars>>

\* the pages, and next to them the order operations called directly
AppNext ==
    \/ PlaceOrderPage
    \/ StaffLoginPage
    \/ DashboardPage
    \/ AdminAddStaffPage
    \/ AdminEditStaffPage
    \/ AdminDeleteStaffPage
    \/ AdminViewStaffPage
    \/ DoAutoAssignOrders
    \/ DoCompleteOrder

AppSpec == Init /\ [][AppNext]_vars

-----------------------------------------------------------------------------
(* Two sessions inside complete_order at once, one step per statement.      *)
(* Each has its own connection (create_connection).  sqlite3 opens a        *)
(* transaction before the UPDATE, which takes the database's write lock     *)
(* and changes the connection's own image of the file; commit() publishes   *)
(* the image and frees the lock.  While another connection holds the lock   *)
(* the UPDATE waits in SQLite's busy handler: the step is not enabled.      *)
(* The handler's timeout (sqlite3.connect's default, 5 s) is not modelled:  *)
(* time is not, and the holder's commit is its very next statement.         *)

Sessions == {1, 2}

InFlight(s) == pc[s] \in {"connected", "executed", "committed"}

\* conn = create_connection(); cursor = conn.cursor()
Connect(s) ==
    \E order_id \in OrderIds :
        /\ pc[s] = "idle"
        /\ pc' = [pc EXCEPT ![s] = "connected"]
        /\ target' = [target EXCEPT ![s] = order_id]
        /\ base' = IF \A t \in Sessions : pc[t] = "idle"
                   THEN [orders |-> db.orders, raced |-> FALSE]
                   ELSE [base EXCEPT !.raced = @ \/ \E t \in Sessions : InFlight(t)]
        /\ UNCHANGED <<db, op, ret, conns, rep, created, shellVars, tx, writer>>

\* cursor.execute("UPDATE orders SET status = 'Completed' WHERE id = ?", (order_id,))
Execute(s) ==
    /\ pc[s] = "connected"
    /\ writer = <<>>
    /\ writer' = <<s>>
    /\ tx' = [tx EXCEPT ![s] = <<complete_order(db, target[s])>>]
    /\ pc' = [pc EXCEPT ![s] = "executed"]
    /\ UNCHANGED <<db, op, ret, conns, rep, created, shellVars, target, base>>

\* conn.commit()
Commit(s) ==
    /\ pc[s] = "executed"
    /\ db' = tx[s][1]
    /\ tx' = [tx EXCEPT ![s] = <<>>]
    /\ writer' = <<>>
    /\ pc' = [pc EXCEPT ![s] = "committed"]
    /\ UNCHANGED <<op, ret, conns, rep, created, shellVars, target, base>>

\* conn.close(); the call returns None
Close(s) ==
    /\ pc[s] = "committed"
    /\ pc' = [pc EXCEPT ![s] = "done"]
    /\ Call("complete_order", <<target[s]>>, PyNone, 1)
    /\ UNCHANGED <<db, created, shellVars, target, tx, writer, base>>

\* both pages have been served: the sessions are free for their next click
Served ==
    /\ \E s \in Sessions : pc[s] = "done"
    /\ \A s \in Sessions : ~InFlight(s)
    /\ pc' = [s \in Sessions |-> "idle"]
    /\ UNCHANGED <<db, op, ret, conns, rep, created, shellVars, target, tx, writer, base>>

\* a third session places an order; its INSERT needs the write lock too
RacePlaceOrder ==
    /\ writer = <<>>
    /\ DoPlaceOrder

RaceNext ==
    \/ RacePlaceOrder
    \/ \E s \in Sessions : Connect(s)
    \/ \E s \in Sessions : Execute(s)
    \/ \E s \in Sessions : Commit(s)
    \/ \E s \in Sessions : Close(s)
    \/ Served

RaceSpec == Init /\ [][RaceNext]_vars

\* a call that has started runs on: each statement of complete_order that can run does run
RaceFairSpec ==
    /\ RaceSpec
    /\ \A s \in Sessions : WF_vars(Execute(s)) /\ WF_vars(Commit(s)) /\ WF_vars(Close(s))

-----------------------------------------------------------------------------
(* Properties *)

OrderIn(d, id) == CHOOSE r \in d.orders : r.id = id

AdvisoryNames ==
    {"recommend_items", "smart_assign_staff", "analyze_trends", "suggest_groups_for_staff",
     "staff_dashboard_message"}

\* the groq_llm argument of an advisory call: the last one
LlmOf(call) == call.args[Len(call.args)]

(* C1: a place_order(customer_name, items) call with a non-empty items list *)
(* adds exactly one order row: its id is used by no order that existed, its *)
(* status is WIP, its assigned_to is unset, its customer_name is the        *)
(* argument and its items text splits at the commas back into the list;     *)
(* every row that existed is still there, unchanged.                        *)
C1_PlaceOrderAddsOneWipRow ==
    [][(op'.name = "place_order" /\ op'.args[2] # <<>>) =>
          LET new == db'.orders \ db.orders
          IN  /\ Cardinality(new) = 1
              /\ db.orders \subseteq db'.orders
              /\ Cardinality(Ids(db'.orders)) = Cardinality(db'.orders)
              /\ \A r \in new :
                    /\ r.id \notin Ids(db.orders)
                    /\ r.status = "WIP"
                    /\ r.assigned_to = NULL
                    /\ r.customer_name = op'.args[1]
                    /\ split(r.items, ",") = op'.args[2]]_vars

C1_Witness ==
    /\ op.name = "place_order"
    /\ Len(op.args[2]) = 2
    /\ Cardinality(db.orders) = MaxOrders
    /\ \E r \in db.orders : r.status = "Completed"

(* C2 as stated: for every staff record made by add_staff(name, pw, groups) *)
(* and not deleted since, authenticate(name, pw) is true and                *)
(* authenticate(name, pw + "x") is false, whatever other staff records      *)
(* exist.                                                                   *)
C2_Original ==
    \A c \in created :
        /\ authenticate(db, c.name, c.pw)
        /\ ~authenticate(db, c.name, c.pw \o "x")

(* C2 amended: authenticate(name, pw) is true, and authenticate(name, pw +  *)
(* "x") is true exactly when some staff record that still exists was added  *)
(* under the same name with the password pw + "x"; otherwise it is false.   *)
C2_AuthenticateMatchesSomeRecord ==
    /\ {c.id : c \in created} = Ids(db.staff)
    /\ \A c \in created :
        /\ authenticate(db, c.name, c.pw)
        /\ authenticate(db, c.name, c.pw \o "x")
               <=> \E other \in created : other.name = c.name /\ other.pw = c.pw \o "x"

C2_Witness ==
    /\ op.name = "authenticate"
    /\ \E c \in created : op.args = <<c.name, c.pw \o "x">> /\ ret = PyBool(FALSE)
    /\ \E c, other \in created : c.name # other.name /\ other.pw = c.pw \o "x"

C4_BothReturned ==
    (/\ \A s \in Sessions : pc[s] = "done"
     /\ target[1] = target[2]
     /\ target[1] \in Ids(base.orders)) =>
        /\ \E r \in db.orders : r.id = target[1]
        /\ \A r \in db.orders : r.id = target[1] => r.status = "Completed"
        /\ \A r \in base.orders : r.id # target[1] => r \in db.orders
        /\ ret = PyNone
        /\ writer = <<>>

C5_StatusNeverReverts ==
    [][\A r \in db.orders : \A q \in db'.orders :
          q.id = r.id =>
              \/ q.status = r.status
              \/ r.status = "WIP" /\ q.status = "Completed"]_vars

C5_Witness ==
    /\ op.name = "auto_assign_orders"
    /\ \E r \in db.orders : r.status = "Completed"
    /\ \E r \in db.orders : r.status = "WIP"
    /\ db.staff # {}

(* C6: the dashboard's counts add up: total = in progress + completed;      *)
(* get_dashboard_data has one row per order and every order's status is WIP *)
(* or Completed.                                                            *)
C6_DashboardCountsAddUp ==
    LET df == get_dashboard_data(db)
    IN  /\ Metrics(df).total = Metrics(df).in_progress + Metrics(df).completed
        /\ Len(df) = Cardinality(db.orders)
        /\ {df[i].order_id : i \in 1..Len(df)} = Ids(db.orders)
        /\ \A r \in db.orders : r.status \in {"WIP", "Completed"}

C6_Witness ==
    /\ op.name = "get_dashboard_data"
    /\ Metrics(ret.v).in_progress >= 1
    /\ Metrics(ret.v).completed >= 1

(* C7: complete_order(id) on an existing id returns None, leaves that order *)
(* Completed and everything else as it was; called a second time in a row   *)
(* it changes nothing, so two calls give the state one call gives.          *)
C7_CompleteOrderIdempotent ==
    [][(op'.name = "complete_order" /\ op'.args[1] \in Ids(db.orders)) =>
          LET id == op'.args[1]
          IN  /\ ret' = PyNone
              /\ OrderIn(db', id).status = "Completed"
              /\ [OrderIn(db', id) EXCEPT !.status = "-"] = [OrderIn(db, id) EXCEPT !.status = "-"]
              /\ {r \in db'.orders : r.id # id} = {r \in db.orders : r.id # id}
              /\ db'.staff = db.staff
              /\ rep' => db' = db
              /\ complete_order(db', id) = db']_vars

C7_Witness ==
    /\ op.name = "complete_order"
    /\ rep
    /\ op.args[1] \in Ids(db.orders)
    /\ \E r \in db.orders : r.status = "WIP"

(* C8: complete_order(id) with an id no order has changes nothing: the      *)
(* orders table and the staff table are as before, no row is created, and   *)
(* the call returns None.                                                   *)
C8_CompleteUnknownIdIsNoOp ==
    [][(op'.name = "complete_order" /\ op'.args[1] \notin Ids(db.orders)) =>
          /\ db' = db
          /\ ret' = PyNone]_vars

C8_Witness ==
    /\ op.name = "complete_order"
    /\ op.args[1] \notin Ids(db.orders)
    /\ db.orders # {}
    /\ db.staff # {}

(* C9: a staff record appears only in an add_staff step, disappears only in *)
(* a delete_staff step, and changes only in an edit_staff step, which       *)
(* changes its groups alone; every other operation leaves the staff table   *)
(* as it was; and no step removes an order id.                              *)
C9_StaffAndOrderLifecycle ==
    [][/\ Ids(db'.staff) \ Ids(db.staff) # {} => op'.name = "add_staff"
       /\ Ids(db.staff) \ Ids(db'.staff) # {} => op'.name = "delete_staff"
       /\ \A r \in db.staff : \A q \in db'.staff :
             (q.id = r.id /\ q # r) =>
                 /\ op'.name = "edit_staff"
                 /\ q = [r EXCEPT !.groups = q.groups]
       /\ op'.name \notin {"add_staff", "edit_staff", "delete_staff"} => db'.staff = db.staff
       /\ Ids(db.orders) \subseteq Ids(db'.orders)]_vars

C9_Witness ==
    /\ op.name = "delete_staff"
    /\ db.staff # {}
    /\ db.seq_staff = MaxStaff
    /\ Cardinality(db.orders) = MaxOrders

(* C10: whatever pages are run and whatever order operations are called,    *)
(* every order has assigned_to unset; so get_staff_orders returns no rows   *)
(* for any name, the Staff Login page renders no Mark Complete button, and  *)
(* no run of that page completes an order.                                  *)
C10_NothingIsEverAssigned ==
    /\ \A r \in db.orders : r.assigned_to = NULL
    /\ \A name \in StaffNames \cup TextNames : get_staff_orders(db, name) = <<>>
    /\ buttons = {}
    /\ op.name = "Staff Login" => ret.orders = <<>> /\ ret.completed = {}

C10_Witness ==
    /\ op.name = "Staff Login"
    /\ logged_in # <<>>
    /\ op.args[4] = <<>>
    /\ \E r \in db.orders : r.status = "WIP"
    /\ \E r \in db.orders : r.status = "Completed"

====
